---- MODULE Spec2Model ----
(***************************************************************************)
(* Webhook ingestion pipeline of the OtterAI backend                       *)
(* (POST /api/v1/zapier/actions/otterai-analyze) together with the record, *)
(* tenant and analytics stores it writes to.                               *)
(*                                                                         *)
(* JavaScript strings are modelled as sequences of one-character strings,  *)
(* so that includes/split/trim/parseInt/parseFloat/toLowerCase are         *)
(* computed character by character as the runtime computes them.           *)
(*                                                                         *)
(* Spec is the endpoint with requests handled one after the other;         *)
(* ParserSpec applies the duration block and the sentiment block of the    *)
(* handler to one drawn value each.                                        *)
(***************************************************************************)
EXTENDS Integers, Sequences, FiniteSets, TLC

\* JavaScript values are tagged records, so that values of different
\* JavaScript types can be compared: null/undefined, NaN, numbers, strings,
\* Date objects, arrays of strings and a value of the wrong JSON type.
Null == [t |-> "null"]
NaN == [t |-> "nan"]
Num(n) == [t |-> "num", v |-> n]
Str(s) == [t |-> "str", v |-> s]
List(l) == [t |-> "list", v |-> l]
BadShape == [t |-> "bad-shape"]
\* an opaque string (a URL, a name, an enum member) whose characters no code
\* looks at, a primary key, and a Date
Sym(x) == [t |-> "sym", v |-> x]
Uuid(i) == [t |-> "uuid", v |-> i]
Date(y) == [t |-> "date", v |-> y]
InvalidDate == [t |-> "invalid-date"]
\* the Date that `new Date()` returns while the request is handled
Now == [t |-> "now"]

----------------------------------------------------------------------------
(* String primitives                                                       *)

Digits == {"0", "1", "2", "3", "4", "5", "6", "7", "8", "9"}

DigitVal(c) ==
  CASE c = "0" -> 0 [] c = "1" -> 1 [] c = "2" -> 2 [] c = "3" -> 3
    [] c = "4" -> 4 [] c = "5" -> 5 [] c = "6" -> 6 [] c = "7" -> 7
    [] c = "8" -> 8 [] c = "9" -> 9

IsSpace(c) == c = " "

\* String.prototype.includes
Includes(s, sub) ==
  \E i \in 1..(Len(s) - Len(sub) + 1) : SubSeq(s, i, i + Len(sub) - 1) = sub

\* the suffix of s that starts at position i (1-based)
From(s, i) == SubSeq(s, i, Len(s))

\* String.prototype.split with a one-character separator
RECURSIVE Split(_, _)
Split(s, sep) ==
  IF \E i \in 1..Len(s) : s[i] = sep
    THEN LET i == CHOOSE k \in 1..Len(s) :
                    s[k] = sep /\ \A j \in 1..(k - 1) : s[j] # sep
         IN  <<SubSeq(s, 1, i - 1)>> \o Split(From(s, i + 1), sep)
    ELSE <<s>>

\* String.prototype.trim
RECURSIVE Trim(_)
Trim(s) ==
  IF s = <<>> THEN s
  ELSE IF IsSpace(s[1]) THEN Trim(Tail(s))
  ELSE IF IsSpace(s[Len(s)]) THEN Trim(SubSeq(s, 1, Len(s) - 1))
  ELSE s

\* String.prototype.replace(ch, '') : removes the first occurrence only
ReplaceFirst(s, ch) ==
  IF \E i \in 1..Len(s) : s[i] = ch
    THEN LET i == CHOOSE k \in 1..Len(s) :
                    s[k] = ch /\ \A j \in 1..(k - 1) : s[j] # ch
         IN  SubSeq(s, 1, i - 1) \o From(s, i + 1)
    ELSE s

LowerOf(c) ==
  CASE c = "G" -> "g" [] c = "O" -> "o" [] c = "D" -> "d" [] c = "B" -> "b"
    [] c = "A" -> "a" [] c = "U" -> "u" [] c = "L" -> "l" [] c = "Y" -> "y"
    [] c = "I" -> "i" [] c = "M" -> "m" [] c = "P" -> "p" [] c = "N" -> "n"
    [] OTHER -> c

\* String.prototype.toLowerCase
ToLowerCase(s) == [i \in 1..Len(s) |-> LowerOf(s[i])]

\* length of the longest run of decimal digits at the start of s
RECURSIVE DigitRun(_)
DigitRun(s) ==
  IF s # <<>> /\ s[1] \in Digits THEN 1 + DigitRun(Tail(s)) ELSE 0

\* length of the longest run of white space at the start of s
RECURSIVE SpaceRun(_)
SpaceRun(s) ==
  IF s # <<>> /\ IsSpace(s[1]) THEN 1 + SpaceRun(Tail(s)) ELSE 0

\* value of a non-empty sequence of decimal digits
RECURSIVE DigitsValue(_)
DigitsValue(s) ==
  IF s = <<>> THEN 0
  ELSE 10 * DigitsValue(SubSeq(s, 1, Len(s) - 1)) + DigitVal(s[Len(s)])

RECURSIVE Pow10(_)
Pow10(k) == IF k = 0 THEN 1 ELSE 10 * Pow10(k - 1)

\* parseInt(s) for a string s: skip white space, an optional sign, then the
\* longest digit prefix; NaN when there is no digit
ParseInt(s) ==
  LET t    == From(s, SpaceRun(s) + 1)
      neg  == t # <<>> /\ t[1] = "-"
      u    == IF t # <<>> /\ t[1] \in {"-", "+"} THEN Tail(t) ELSE t
      n    == DigitRun(u)
  IN  IF n = 0 THEN NaN
      ELSE IF neg THEN Num(0 - DigitsValue(SubSeq(u, 1, n)))
      ELSE Num(DigitsValue(SubSeq(u, 1, n)))

\* Math.round(parseFloat(s) * m): parseFloat reads white space, an optional
\* sign, digits, an optional '.' and digits; NaN when neither part has a
\* digit.  Math.round rounds halves up.
ParseFloatTimes(s, m) ==
  LET t    == From(s, SpaceRun(s) + 1)
      neg  == t # <<>> /\ t[1] = "-"
      u    == IF t # <<>> /\ t[1] \in {"-", "+"} THEN Tail(t) ELSE t
      n    == DigitRun(u)
      rest == From(u, n + 1)
      k    == IF rest # <<>> /\ rest[1] = "." THEN DigitRun(Tail(rest)) ELSE 0
      num  == DigitsValue(SubSeq(u, 1, n)) * Pow10(k)
                + (IF k = 0 THEN 0 ELSE DigitsValue(SubSeq(rest, 2, k + 1)))
      sgn  == IF neg THEN 0 - num ELSE num
  IN  IF n = 0 /\ k = 0 THEN NaN
      ELSE Num((2 * sgn * m + Pow10(k)) \div (2 * Pow10(k)))

\* JavaScript truthiness: null, undefined, NaN, 0 and "" are falsy
Truthy(v) ==
  /\ v # Null
  /\ v # NaN
  /\ v # Num(0)
  /\ v # Str(<<>>)

\* a || b
Or(a, b) == IF Truthy(a) THEN a ELSE b

\* value.toString() of a number or a string
RECURSIVE NatToString(_)
NatToString(n) ==
  IF n < 10 THEN <<SubSeq(<<"0", "1", "2", "3", "4", "5", "6", "7", "8", "9">>,
                          n + 1, n + 1)[1]>>
  ELSE NatToString(n \div 10) \o NatToString(n % 10)

JsToString(v) ==
  IF v.t = "str" THEN v.v
  ELSE IF v.v < 0 THEN <<"-">> \o NatToString(0 - v.v)
  ELSE NatToString(v.v)

----------------------------------------------------------------------------
(* Duration parser (the `duration` block of the handler)                   *)

\* durationStr.match(/(?:(\d+)h\s*)?(?:(\d+)m)?/): the pattern can match the
\* empty string, so the match is always found at index 0; a group that did
\* not take part is undefined and parseInt(undefined) || 0 is 0
HourMinuteMatch(s) ==
  LET hd   == DigitRun(s)
      hasH == hd > 0 /\ Len(s) > hd /\ s[hd + 1] = "h"
      r0   == IF hasH THEN From(s, hd + 2) ELSE s
      r    == From(r0, (IF hasH THEN SpaceRun(r0) ELSE 0) + 1)
      md   == DigitRun(r)
      hasM == md > 0 /\ Len(r) > md /\ r[md + 1] = "m"
  IN  [hours   |-> IF hasH THEN DigitsValue(SubSeq(s, 1, hd)) ELSE 0,
       minutes |-> IF hasM THEN DigitsValue(SubSeq(r, 1, md)) ELSE 0]

\* parseInt(x) || 0
IntOrZero(s) == LET p == ParseInt(s) IN IF Truthy(p) THEN p.v ELSE 0

\* the value of `duration` after the block: null, NaN or a number of seconds
ParseDuration(d) ==
  IF ~Truthy(d) THEN Null
  ELSE
    LET durationStr == JsToString(d) IN
    IF Includes(durationStr, <<":">>) THEN
      LET parts == Split(durationStr, ":") IN
      IF Len(parts) = 3 THEN
        Num(IntOrZero(parts[1]) * 3600 + IntOrZero(parts[2]) * 60
              + IntOrZero(parts[3]))
      ELSE IF Len(parts) = 2 THEN
        Num(IntOrZero(parts[1]) * 60 + IntOrZero(parts[2]))
      ELSE Null
    ELSE IF Includes(durationStr, <<"m">>) THEN
      LET match == HourMinuteMatch(durationStr)
      IN  Num(match.hours * 3600 + match.minutes * 60)
    ELSE IF Includes(durationStr, <<"h">>) THEN
      ParseFloatTimes(ReplaceFirst(durationStr, "h"), 3600)
    ELSE Or(ParseInt(durationStr), Null)

----------------------------------------------------------------------------
(* Sentiment mapper and strengths / weaknesses splitter                    *)

S_positive == <<"p", "o", "s", "i", "t", "i", "v", "e">>
S_impressive == <<"i", "m", "p", "r", "e", "s", "s", "i", "v", "e">>
S_good == <<"g", "o", "o", "d">>
S_negative == <<"n", "e", "g", "a", "t", "i", "v", "e">>
S_bad == <<"b", "a", "d">>
S_ugly == <<"u", "g", "l", "y">>

\* the mapper with the negative family tested before the positive family
MapSentiment_NegativeFirst(category) ==
  IF ~Truthy(category) THEN Null
  ELSE
    LET sentiment == ToLowerCase(category.v) IN
    IF Includes(sentiment, S_negative) \/ Includes(sentiment, S_bad)
         \/ Includes(sentiment, S_ugly)
      THEN Str(S_negative)
    ELSE IF Includes(sentiment, S_positive) \/ Includes(sentiment, S_impressive)
              \/ Includes(sentiment, S_good)
      THEN Str(S_positive)
    ELSE Str(<<"n", "e", "u", "t", "r", "a", "l">>)

\* mappedSentiment: null when no category is supplied
MapSentiment(category) ==
  IF ~Truthy(category) THEN Null
  ELSE
    LET sentiment == ToLowerCase(category.v) IN
    IF Includes(sentiment, S_positive) \/ Includes(sentiment, S_impressive)
         \/ Includes(sentiment, S_good)
      THEN Str(S_positive)
    ELSE IF Includes(sentiment, S_negative) \/ Includes(sentiment, S_bad)
              \/ Includes(sentiment, S_ugly)
      THEN Str(S_negative)
    ELSE Str(<<"n", "e", "u", "t", "r", "a", "l">>)

\* x ? x.split(',').map(s => s.trim()).filter(s => s) : []
SplitList(x) ==
  IF ~Truthy(x) THEN List(<<>>)
  ELSE LET parts == Split(x.v, ",")
           trimmed == [i \in 1..Len(parts) |-> Trim(parts[i])]
       IN  List(SelectSeq(trimmed, LAMBDA p : p # <<>>))

----------------------------------------------------------------------------
(* Bounds                                                                  *)

\* number of Call Records the record store can hold (primary keys 1..MaxCalls)
MaxCalls == 1
\* number of ingestion requests received in one behaviour
MaxRequests == 2

----------------------------------------------------------------------------
(* Request payloads                                                        *)

Obj(fields) == [t |-> "obj", f |-> fields]
\* the object {}
EmptyObj == [t |-> "empty-obj"]

\* x?.field : undefined when x is absent
Get(x, field) == IF x.t = "obj" THEN x.f[field] ELSE Null

C_ugly == <<"U", "g", "l", "y">>
C_ab == <<"a", ",", " ", "b">>
D_1h30m == <<"1", "h", " ", "3", "0", "m">>
D_abc == <<"a", "b", "c">>
D_colon == <<"a", ":", "b">>
D_ah == <<"a", "h">>
Y_2024 == <<"2", "0", "2", "4">>
Y_2025 == <<"2", "0", "2", "5">>

SentimentFull ==
  Obj([sentiment_category |-> Str(C_ugly), strengths |-> Str(C_ab),
       weaknesses |-> Str(<<"c">>), meeting_score |-> Num(1250)])
SentimentEmpty ==
  Obj([sentiment_category |-> Null, strengths |-> Null,
       weaknesses |-> Null, meeting_score |-> Null])
SentimentJunk ==
  Obj([sentiment_category |-> Null, strengths |-> BadShape,
       weaknesses |-> Null, meeting_score |-> Null])
MeetingFull ==
  Obj([duration |-> Str(D_1h30m), start_datetime |-> Str(Y_2024),
       end_datetime |-> Str(Y_2025)])
MeetingWith(d) ==
  Obj([duration |-> d, start_datetime |-> Null, end_datetime |-> Null])
UserBlock(n) == Obj([user_name |-> Sym(n), user_email |-> Sym(n)])

\* the parts of a request body that do not select the record or the tenant:
\* every optional field omitted
EmptyContent ==
  [transcript_data |-> Null, transcript |-> Null, captured_data_url |-> Null,
   sentiment_analysis |-> Null, user_identification |-> Null,
   user_info |-> Null, meeting_id |-> Null, meeting_details |-> Null]
\* every field supplied
FullContent ==
  [transcript_data |-> Null, transcript |-> Sym("transcript-2"),
   captured_data_url |-> Sym("recording-2"),
   sentiment_analysis |-> SentimentFull,
   user_identification |-> UserBlock("legacy"),
   user_info |-> UserBlock("info"), meeting_id |-> Sym("meeting-2"),
   meeting_details |-> MeetingFull]
\* an empty sentiment block and a duration that is no duration
SparseContent ==
  [EmptyContent EXCEPT !.sentiment_analysis = SentimentEmpty,
                       !.user_identification = UserBlock("legacy"),
                       !.meeting_details = MeetingWith(Str(D_abc))]
ColonContent == [EmptyContent EXCEPT !.meeting_details = MeetingWith(Str(D_colon))]
HourContent == [EmptyContent EXCEPT !.meeting_details = MeetingWith(Str(D_ah))]
\* strengths that is not a string
JunkContent == [EmptyContent EXCEPT !.sentiment_analysis = SentimentJunk]
\* structurally invalid bodies
BadSentimentContent == [FullContent EXCEPT !.sentiment_analysis = BadShape]
BadFieldsContent ==
  [EmptyContent EXCEPT !.transcript_data = BadShape,
                       !.sentiment_analysis = SentimentFull,
                       !.user_identification = BadShape,
                       !.meeting_id = BadShape]

\* a sentiment block that carries nothing but a meeting_score
ScoreContent(score) ==
  [EmptyContent EXCEPT !.sentiment_analysis =
     Obj([sentiment_category |-> Null, strengths |-> Null,
          weaknesses |-> Null, meeting_score |-> score])]

\* meeting_score values: above the ceiling as a text, within the range as a
\* text, no number, below the range
ScoreContents ==
  {ScoreContent(Str(<<"1", "2", ".", "5">>)),
   ScoreContent(Str(<<"7", ".", "2", "5">>)),
   ScoreContent(Str(D_abc)),
   ScoreContent(Num(0 - 1250))}

Contents ==
  {EmptyContent, FullContent, SparseContent, ColonContent, HourContent,
   JunkContent, BadSentimentContent, BadFieldsContent}

Extend(c, id, org) ==
  [transcript_data |-> c.transcript_data, transcript |-> c.transcript,
   captured_data_url |-> c.captured_data_url,
   sentiment_analysis |-> c.sentiment_analysis,
   user_identification |-> c.user_identification, user_info |-> c.user_info,
   meeting_id |-> c.meeting_id, meeting_details |-> c.meeting_details,
   salesCallId |-> id, organizationId |-> org]

\* the tenants the tenant store holds, and a tenant id it does not hold
Organizations == {Sym("org-1")}
UnknownOrg == Sym("org-9")

\* req.body
Bodies ==
  { Extend(c, id, org) :
      c \in Contents,
      id \in {Null, Uuid(1)},
      org \in {Null, UnknownOrg} \cup Organizations }
    \cup { Extend(c, Uuid(1), Null) : c \in ScoreContents }

----------------------------------------------------------------------------
(* State                                                                   *)

VARIABLES
  salesCalls,   \* the sales_calls table: primary key -> row
  analytics,    \* the analytics table: the rows in insertion order
  nextId,       \* the next primary key the record store hands out
  received,     \* number of ingestion requests received so far
  req,          \* per handler invocation: position, req.body, locals, response
  arg,          \* the value handed to the duration parser or sentiment mapper
  out,          \* what the parser or mapper returned for arg
  notifications, \* the notifications table: the rows in insertion order
  http,         \* the last request to the /sales-calls routes and its answer
  migrations,   \* the migrations table: the rows in insertion order
  executed,     \* the SQL files the migration tool has run, in order
  cli,          \* the last command of the migration tool and how it ended
  sockets,      \* per socket: socket.user, its rooms, the last event emitted
  liveSessions  \* the live_sessions table: primary key -> row

\* the state outside the ingestion endpoint
elsewhere == <<http, migrations, executed, cli, sockets, liveSessions>>

vars == <<salesCalls, analytics, nextId, received, req, arg, out,
          notifications, elsewhere>>

\* handler invocations; the sequential specification uses the first only
Slots == {1, 2}

\* no value has been handed to the parser or the mapper, and no value has
\* been returned yet
NoArg == [kind |-> "none", value |-> Null, tokens |-> <<>>]
Pending == [t |-> "pending"]


\* a socket no handler has been called with: no user, in no room, nothing
\* emitted to it, no join_live_session received from it
Unconnected == [user |-> Null, rooms |-> {}, emitted |-> "none", data |-> Null]

\* the sockets of the model
SocketIds == {"socket-1", "socket-2"}

\* the /sales-calls routes, the migration tool and the socket layer before
\* anything has reached them
ToolsIdle ==
  /\ http = [n |-> 0, route |-> "none", user |-> Null, id |-> 0, status |-> 0]
  /\ migrations = <<>>
  /\ executed = <<>>
  /\ cli = [n |-> 0, command |-> "none", name |-> "", exit |-> 0]
SocketIdle == sockets = [s \in SocketIds |-> Unconnected] /\ liveSessions = <<>>

----------------------------------------------------------------------------
(* Record store: the SalesCall and Analytics models                        *)

Statuses == {Sym("scheduled"), Sym("in_progress"), Sym("completed"),
             Sym("cancelled"), Sym("no_show")}
Outcomes == {Sym("sale"), Sym("no_sale"), Sym("follow_up"), Sym("rescheduled")}
Sentiments == {Str(S_positive), Str(<<"n", "e", "u", "t", "r", "a", "l">>),
               Str(S_negative)}

\* the attributes of a row with the model's defaultValue for each
SalesCallDefaults ==
  [organization_id |-> Null, sales_representative_id |-> Null,
   customer_name |-> Null, customer_email |-> Null,
   appointment_date |-> Null, call_start_time |-> Null,
   call_end_time |-> Null, duration |-> Null, status |-> Sym("scheduled"),
   outcome |-> Null, sale_amount |-> Null, otter_ai_recording_id |-> Null,
   recording_url |-> Null, transcript_url |-> Null, analysis_data |-> EmptyObj,
   performance_score |-> Null, strengths |-> List(<<>>),
   weaknesses |-> List(<<>>), recommendations |-> List(<<>>),
   script_compliance |-> Null, key_topics_covered |-> List(<<>>),
   objections_handled |-> List(<<>>), customer_sentiment |-> Null,
   notes |-> Null]

\* attributes declared allowNull: false
SalesCallNotNull ==
  {"organization_id", "sales_representative_id", "appointment_date", "status"}

\* row with the attributes named in values replaced
Assign(row, values) ==
  [a \in DOMAIN row |-> IF a \in DOMAIN values THEN values[a] ELSE row[a]]

\* the model's validators and the column types, applied to the attributes
\* that are written: allowNull, isIn, INTEGER, DECIMAL(3,2) and DATE
ValidSalesCall(row, attrs) ==
  /\ \A a \in attrs \cap SalesCallNotNull : row[a] # Null
  /\ "status" \in attrs => row.status \in Statuses
  /\ "outcome" \in attrs => row.outcome \in Outcomes \cup {Null}
  /\ "customer_sentiment" \in attrs
       => row.customer_sentiment \in Sentiments \cup {Null}
  /\ "duration" \in attrs => row.duration.t \in {"null", "num"}
  /\ "performance_score" \in attrs
       => \/ row.performance_score = Null
          \/ /\ row.performance_score.t = "num"
             /\ row.performance_score.v < 1000
             /\ row.performance_score.v > -1000
  /\ \A a \in attrs \cap {"appointment_date", "call_start_time",
                          "call_end_time"} :
       row[a].t \in {"null", "date", "now"}

\* the foreign key sales_calls.organization_id -> organizations.id
ForeignKeyHolds(row) ==
  row.organization_id = Null \/ row.organization_id \in Organizations

\* attributes of the Analytics model declared allowNull: false
AnalyticsNotNull ==
  {"organization_id", "report_type", "report_name", "report_data"}

ValidAnalytics(row) ==
  /\ \A a \in AnalyticsNotNull : row[a] # Null
  /\ row.organization_id \in Organizations

----------------------------------------------------------------------------
(* The other writers of the record store (routes/salesCalls.js)            *)

\* requests are handled one after the other: no invocation of the ingestion
\* handler is between its first and its last step
Quiescent == \A r \in Slots : req[r].pc \in {"idle", "responded"}

\* POST /sales-calls: a representative's call, scheduled, in the user's tenant
PostSalesCall ==
  /\ Quiescent
  /\ nextId <= MaxCalls
  /\ \E org \in Organizations :
       LET row == Assign(SalesCallDefaults,
                    [customer_name |-> Sym("customer-1"),
                     customer_email |-> Sym("customer-1"),
                     appointment_date |-> Date(2023),
                     sales_representative_id |-> Sym("rep-1"),
                     organization_id |-> org, notes |-> Sym("note-1")])
       IN  /\ ValidSalesCall(row, DOMAIN row)
           /\ ForeignKeyHolds(row)
           /\ salesCalls' = [i \in DOMAIN salesCalls \cup {nextId} |->
                               IF i = nextId THEN row ELSE salesCalls[i]]
  /\ nextId' = nextId + 1
  /\ UNCHANGED <<analytics, received, req, arg, out, notifications, elsewhere>>

\* the body of a PUT /sales-calls/:id that fills in the call's result
PutBody ==
  [call_start_time |-> Date(2022), call_end_time |-> Date(2023),
   duration |-> Num(600), status |-> Sym("completed"),
   outcome |-> Sym("sale"), sale_amount |-> Num(5000),
   otter_ai_recording_id |-> Sym("meeting-1"),
   recording_url |-> Sym("recording-1"),
   transcript_url |-> Sym("transcript-1"), performance_score |-> Num(700),
   strengths |-> List(<<<<"s">>>>), weaknesses |-> List(<<<<"w">>>>),
   recommendations |-> List(<<<<"r">>>>), script_compliance |-> Num(50),
   key_topics_covered |-> List(<<<<"k">>>>),
   objections_handled |-> List(<<<<"o">>>>),
   customer_sentiment |-> Str(S_positive)]

\* PUT /sales-calls/:id: salesCall.update(req.body)
PutSalesCall ==
  /\ Quiescent
  /\ \E id \in DOMAIN salesCalls :
       /\ ValidSalesCall(Assign(salesCalls[id], PutBody), DOMAIN PutBody)
       /\ salesCalls' = [salesCalls EXCEPT ![id] = Assign(@, PutBody)]
  /\ UNCHANGED <<analytics, nextId, received, req, arg, out,
                 notifications, elsewhere>>

----------------------------------------------------------------------------
(* POST /actions/otterai-analyze: values computed from req.body            *)

\* the chain without the check of sentiment_analysis
ValidationErrors_NoSentimentCheck(body) ==
  {f \in {"transcript_data", "user_identification", "meeting_id"} :
     body[f] = BadShape}

\* the express-validator chain: the fields that fail their check
ValidationErrors(body) ==
  {f \in {"transcript_data", "sentiment_analysis", "user_identification",
          "meeting_id"} : body[f] = BadShape}

\* new Date(string): a four-digit year is a date, other text is Invalid Date
NewDate(v) ==
  IF v.t = "str" /\ Len(v.v) = 4 /\ DigitRun(v.v) = 4
    THEN Date(DigitsValue(v.v))
    ELSE InvalidDate

\* the score without the cap
MathMin_NoCap(a, cap) == a

\* Math.min(parseFloat(x), 9.99), scores counted in hundredths
MathMin(a, cap) == IF a = NaN THEN NaN ELSE IF a.v < cap THEN a ELSE Num(cap)

ParseFloat100(x) ==
  IF x.t = "num" THEN x
  ELSE IF x.t = "str" THEN ParseFloatTimes(x.v, 100)
  ELSE NaN

PerformanceScore(body) ==
  LET score == Get(body.sentiment_analysis, "meeting_score")
  IN  IF Truthy(score) THEN MathMin(ParseFloat100(score), 999) ELSE Null

Strengths(body) == SplitList(Get(body.sentiment_analysis, "strengths"))
Weaknesses(body) == SplitList(Get(body.sentiment_analysis, "weaknesses"))
Duration(body) == ParseDuration(Get(body.meeting_details, "duration"))
MappedSentiment(body) ==
  MapSentiment(Get(body.sentiment_analysis, "sentiment_category"))

\* .split exists on strings only: a TypeError
ExtractThrows(body) ==
  \/ Get(body.sentiment_analysis, "strengths") = BadShape
  \/ Get(body.sentiment_analysis, "weaknesses") = BadShape

\* .toLowerCase exists on strings only
SentimentThrows(body) ==
  Get(body.sentiment_analysis, "sentiment_category") = BadShape

AnalysisData(body) ==
  Obj([meeting_id |-> body.meeting_id,
       sentiment_analysis |-> body.sentiment_analysis,
       user_identification |-> body.user_identification,
       user_info |-> body.user_info,
       meeting_details |-> body.meeting_details,
       transcript |-> Or(body.transcript, Null),
       captured_data_url |-> Or(body.captured_data_url, Null)])

\* `x || salesCall.x`: the new value if provided, the existing one if not
KeepOr_Overwrite(new, old) == new

KeepOr(new, old) == Or(new, old)

\* "Set outcome to null as it's hidden" (the create branch also sets
\* sale_amount to null)
HiddenFieldsOnUpdate_AsCreate == [outcome |-> Null, sale_amount |-> Null]

HiddenFieldsOnUpdate == [outcome |-> Null]

\* the argument of salesCall.update; salesCall is the row findByPk returned
UpdateValues(body, salesCall) ==
  HiddenFieldsOnUpdate @@
  [analysis_data |-> AnalysisData(body),
   transcript_url |-> KeepOr(body.transcript, salesCall.transcript_url),
   performance_score |-> PerformanceScore(body),
   strengths |-> Strengths(body),
   weaknesses |-> Weaknesses(body),
   recommendations |-> List(<<>>),
   key_topics_covered |-> List(<<>>),
   objections_handled |-> List(<<>>),
   customer_sentiment |-> MappedSentiment(body),
   script_compliance |-> Null,
   call_start_time |->
     IF Truthy(Get(body.meeting_details, "start_datetime"))
       THEN NewDate(Get(body.meeting_details, "start_datetime"))
       ELSE salesCall.call_start_time,
   call_end_time |->
     IF Truthy(Get(body.meeting_details, "end_datetime"))
       THEN NewDate(Get(body.meeting_details, "end_datetime"))
       ELSE salesCall.call_end_time,
   duration |-> KeepOr(Duration(body), salesCall.duration),
   otter_ai_recording_id |->
     KeepOr(body.meeting_id, salesCall.otter_ai_recording_id),
   recording_url |-> KeepOr(body.captured_data_url, salesCall.recording_url)]

\* the legacy block preferred over user_info
CustomerName_LegacyFirst(body) ==
  Or(Get(body.user_identification, "user_name"),
     Or(Get(body.user_info, "user_name"), Sym("Unknown Customer")))

\* user_info?.user_name || user_identification?.user_name || 'Unknown Customer'
CustomerName(body) ==
  Or(Get(body.user_info, "user_name"),
     Or(Get(body.user_identification, "user_name"), Sym("Unknown Customer")))

\* salesCallData, the argument of SalesCall.create
SalesCallData(body) ==
  [organization_id |-> Or(body.organizationId, Null),
   sales_representative_id |-> Null,
   customer_name |-> CustomerName(body),
   customer_email |->
     Or(Get(body.user_info, "user_email"),
        Or(Get(body.user_identification, "user_email"), Null)),
   appointment_date |->
     IF Truthy(Get(body.meeting_details, "start_datetime"))
       THEN NewDate(Get(body.meeting_details, "start_datetime"))
       ELSE Now,
   call_start_time |->
     IF Truthy(Get(body.meeting_details, "start_datetime"))
       THEN NewDate(Get(body.meeting_details, "start_datetime"))
       ELSE Null,
   call_end_time |->
     IF Truthy(Get(body.meeting_details, "end_datetime"))
       THEN NewDate(Get(body.meeting_details, "end_datetime"))
       ELSE Null,
   status |-> Sym("completed"),
   outcome |-> Null,
   analysis_data |-> AnalysisData(body),
   transcript_url |-> Or(body.transcript, Null),
   performance_score |-> PerformanceScore(body),
   strengths |-> Strengths(body),
   weaknesses |-> Weaknesses(body),
   recommendations |-> List(<<>>),
   key_topics_covered |-> List(<<>>),
   objections_handled |-> List(<<>>),
   customer_sentiment |-> MappedSentiment(body),
   script_compliance |-> Null,
   duration |-> Duration(body),
   otter_ai_recording_id |-> Or(body.meeting_id, Null),
   recording_url |-> Or(body.captured_data_url, Null),
   sale_amount |-> Null]

----------------------------------------------------------------------------
(* POST /actions/otterai-analyze: the handler, one action per await        *)

\* a handler invocation before any request
Idle ==
  [pc |-> "idle", body |-> Null, salesCall |-> Null,
   createdSalesCallId |-> Null, analyticsOrganizationId |-> Null,
   salesCallData |-> Null, res |-> Null,
   \* history of the invocation: outcome of findByPk, the write to the
   \* record store, the analytics insert, the store calls that rejected,
   \* the writes handed to the record store in the order they were made
   lookup |-> "none", wrote |-> "none", inserted |-> FALSE, faults |-> {},
   calls |-> <<>>]

Set(r, rq) == req' = [req EXCEPT ![r] = rq]

\* the request arrives; saveInputDataToFile writes req.body to a log file
Receive(r) ==
  /\ req[r].pc \in {"idle", "responded"}
  /\ received < MaxRequests
  /\ \E body \in Bodies :
       Set(r, [Idle EXCEPT !.pc = "received", !.body = body])
  /\ received' = received + 1
  /\ UNCHANGED <<salesCalls, analytics, nextId, arg, out,
                 notifications, elsewhere>>

\* validationResult(req): a 400 with the failing fields, or go on
Validate(r) ==
  /\ req[r].pc = "received"
  /\ LET errors == ValidationErrors(req[r].body)
     IN  IF errors # {}
           THEN Set(r, [req[r] EXCEPT
                  !.pc = "responded",
                  !.res = [status |-> 400, success |-> FALSE,
                           code |-> "VALIDATION_ERROR",
                           details |-> errors]])
           ELSE Set(r, [req[r] EXCEPT !.pc = "validated"])
  /\ UNCHANGED <<salesCalls, analytics, nextId, received, arg, out,
                 notifications, elsewhere>>

\* the error is left to the outer catch, which answers 500
OnSalesCallError_Rethrow(rq) ==
  [rq EXCEPT !.pc = "responded",
             !.res = [status |-> 500, success |-> FALSE,
                      code |-> "PROCESSING_FAILED"]]

\* the failed write is made again
OnSalesCallError_Retry(rq) ==
  IF rq.pc \in {"update", "create"} THEN rq ELSE [rq EXCEPT !.pc = "upserted"]

\* catch (salesCallError): log and go on to the analytics block
OnSalesCallError(rq) == [rq EXCEPT !.pc = "upserted"]

\* analysisData, performanceScore, strengths, weaknesses and duration are
\* computed, then the handler takes the update or the create branch
Extract(r) ==
  /\ req[r].pc = "validated"
  /\ IF ExtractThrows(req[r].body)
       THEN Set(r, OnSalesCallError(req[r]))
       ELSE IF Truthy(req[r].body.salesCallId)
         THEN Set(r, [req[r] EXCEPT !.pc = "lookup"])
         ELSE Set(r, [req[r] EXCEPT !.pc = "create"])
  /\ UNCHANGED <<salesCalls, analytics, nextId, received, arg, out,
                 notifications, elsewhere>>

\* await SalesCall.findByPk(salesCallId): the row, null, or a rejection
FindByPk(r) ==
  /\ req[r].pc = "lookup"
  /\ \E ok \in BOOLEAN :
       IF ~ok
         THEN Set(r, OnSalesCallError([req[r] EXCEPT
                  !.lookup = "error", !.faults = @ \cup {"findByPk"}]))
         ELSE IF req[r].body.salesCallId.v \in DOMAIN salesCalls
           THEN Set(r, [req[r] EXCEPT
                  !.pc = "update",
                  !.lookup = "hit",
                  !.salesCall = salesCalls[req[r].body.salesCallId.v]])
           ELSE Set(r, [req[r] EXCEPT !.pc = "upserted", !.lookup = "miss"])
  /\ UNCHANGED <<salesCalls, analytics, nextId, received, arg, out,
                 notifications, elsewhere>>

\* the row compared with the one that was read, as a version column would
Conflicts_Versioned(row, salesCall) == row # salesCall

\* the model declares no version attribute and the handler opens no
\* transaction: an update is never refused because the row has changed
\* since it was read
Conflicts(row, salesCall) == FALSE

\* the row read again when the update is made
Snapshot_Reloaded(rq) == salesCalls[rq.body.salesCallId.v]

\* the instance `salesCall` the handler holds: the row as findByPk read it
Snapshot(rq) == rq.salesCall

\* await salesCall.update({...}); createdSalesCallId = salesCallId
Update(r) ==
  /\ req[r].pc = "update"
  /\ LET body   == req[r].body
         id     == body.salesCallId.v
         values == UpdateValues(body, Snapshot(req[r]))
     IN  \E ok \in BOOLEAN :
           IF /\ ok
              /\ ~Conflicts(salesCalls[id], req[r].salesCall)
              /\ ~SentimentThrows(body)
              /\ ValidSalesCall(Assign(salesCalls[id], values), DOMAIN values)
             THEN /\ salesCalls' = [salesCalls EXCEPT ![id] = Assign(@, values)]
                  /\ Set(r, [req[r] EXCEPT
                       !.pc = "upserted",
                       !.createdSalesCallId = body.salesCallId,
                       !.wrote = "updated",
                       !.calls = Append(@, "SalesCall.update")])
             ELSE /\ Set(r, OnSalesCallError([req[r] EXCEPT
                       !.faults = IF ok THEN @ ELSE @ \cup {"update"},
                       !.calls = IF SentimentThrows(body) THEN @
                                 ELSE Append(@, "SalesCall.update")]))
                  /\ UNCHANGED salesCalls
  /\ UNCHANGED <<analytics, nextId, received, arg, out,
                 notifications, elsewhere>>

\* const newSalesCall = await SalesCall.create(salesCallData);
\* createdSalesCallId = newSalesCall.id
Create(r) ==
  /\ req[r].pc = "create"
  /\ LET body == req[r].body
     IN  \E ok \in BOOLEAN :
           IF /\ ok
              /\ ~SentimentThrows(body)
              /\ nextId <= MaxCalls
              /\ LET row == Assign(SalesCallDefaults, SalesCallData(body))
                 IN  ValidSalesCall(row, DOMAIN row) /\ ForeignKeyHolds(row)
             THEN /\ salesCalls' =
                       [i \in DOMAIN salesCalls \cup {nextId} |->
                          IF i = nextId
                            THEN Assign(SalesCallDefaults, SalesCallData(body))
                            ELSE salesCalls[i]]
                  /\ nextId' = nextId + 1
                  /\ Set(r, [req[r] EXCEPT
                       !.pc = "upserted",
                       !.salesCallData = SalesCallData(body),
                       !.createdSalesCallId = Uuid(nextId),
                       !.wrote = "created",
                       !.calls = Append(@, "SalesCall.create")])
             ELSE /\ Set(r, OnSalesCallError([req[r] EXCEPT
                       !.salesCallData =
                          IF SentimentThrows(body) THEN @
                          ELSE SalesCallData(body),
                       !.faults = IF ok THEN @ ELSE @ \cup {"create"},
                       !.calls = IF SentimentThrows(body) THEN @
                                 ELSE Append(@, "SalesCall.create")]))
                  /\ UNCHANGED <<salesCalls, nextId>>
  /\ UNCHANGED <<analytics, received, arg, out, notifications, elsewhere>>

\* if (sentiment_analysis && (createdSalesCallId || salesCallId))
WantsAnalytics(rq) ==
  /\ Truthy(rq.body.sentiment_analysis)
  /\ Truthy(Or(rq.createdSalesCallId, rq.body.salesCallId))

\* the analytics block is entered or skipped;
\* let analyticsOrganizationId = organizationId || null
Dispatch(r) ==
  /\ req[r].pc = "upserted"
  /\ IF ~WantsAnalytics(req[r])
       THEN Set(r, [req[r] EXCEPT !.pc = "dispatched"])
       ELSE Set(r, [req[r] EXCEPT
              !.pc = IF Truthy(req[r].body.organizationId)
                       THEN "orglookup" ELSE "analytics",
              !.analyticsOrganizationId = Or(req[r].body.organizationId, Null)])
  /\ UNCHANGED <<salesCalls, analytics, nextId, received, arg, out,
                 notifications, elsewhere>>

\* await Organization.findByPk(organizationId): not found, or a rejection,
\* sets analyticsOrganizationId to null
OrgLookup(r) ==
  /\ req[r].pc = "orglookup"
  /\ \E ok \in BOOLEAN :
       Set(r, [req[r] EXCEPT
         !.pc = "analytics",
         !.faults = IF ok THEN @ ELSE @ \cup {"Organization.findByPk"},
         !.analyticsOrganizationId =
            IF ok /\ req[r].body.organizationId \in Organizations
              THEN req[r].body.organizationId ELSE Null])
  /\ UNCHANGED <<salesCalls, analytics, nextId, received, arg, out,
                 notifications, elsewhere>>

\* the argument of Analytics.create
AnalyticsData(rq) ==
  [organization_id |-> rq.analyticsOrganizationId,
   user_id |-> Null,
   report_type |-> Sym("otterai_analysis"),
   report_name |-> Or(rq.createdSalesCallId,
                      Or(rq.body.salesCallId,
                         Or(rq.body.meeting_id, Sym("General")))),
   report_data |->
     Obj([transcript |-> Or(rq.body.transcript, Null),
          captured_data_url |-> Or(rq.body.captured_data_url, Null),
          sentiment_analysis |-> rq.body.sentiment_analysis,
          user_identification |-> rq.body.user_identification,
          user_info |-> rq.body.user_info,
          meeting_details |-> rq.body.meeting_details,
          meeting_id |-> rq.body.meeting_id,
          sales_call_id |-> Or(rq.createdSalesCallId, rq.body.salesCallId)]),
   is_scheduled |-> FALSE]

\* the error is left to the outer catch, which answers 500
OnAnalyticsError_Rethrow(rq) ==
  [rq EXCEPT !.pc = "responded",
             !.res = [status |-> 500, success |-> FALSE,
                      code |-> "PROCESSING_FAILED"]]

\* catch (analyticsError): log and go on to the response
OnAnalyticsError(rq) == [rq EXCEPT !.pc = "dispatched"]

\* await Analytics.create({...})
AnalyticsCreate(r) ==
  /\ req[r].pc = "analytics"
  /\ \E ok \in BOOLEAN :
       IF ok /\ ValidAnalytics(AnalyticsData(req[r]))
         THEN /\ analytics' = Append(analytics, AnalyticsData(req[r]))
              /\ Set(r, [req[r] EXCEPT !.pc = "dispatched",
                                       !.inserted = TRUE,
                                       !.calls = Append(@, "Analytics.create")])
         ELSE /\ Set(r, OnAnalyticsError([req[r] EXCEPT
                   !.faults = IF ok THEN @ ELSE @ \cup {"Analytics.create"},
                   !.calls = Append(@, "Analytics.create")]))
              /\ UNCHANGED analytics
  /\ UNCHANGED <<salesCalls, nextId, received, arg, out,
                 notifications, elsewhere>>

\* res.status(200).json({...})
Response(rq) ==
  [status |-> 200, success |-> TRUE,
   message |-> IF Truthy(rq.createdSalesCallId)
                 THEN "Sales call record created successfully with OtterAI analysis data"
                 ELSE "OtterAI analysis data processed successfully",
   salesCallId |-> Or(rq.createdSalesCallId, rq.body.salesCallId),
   organizationId |-> rq.body.organizationId,
   meeting_id |-> rq.body.meeting_id,
   salesCallCreated |-> Truthy(rq.createdSalesCallId)]

\* the notification about the completed analysis, as the endpoint's
\* description of itself announces it ('Sends notification to user')
NotificationsAfter_Sent(table, rq) ==
  Append(table, [type |-> Sym("analysis_complete"),
                 data |-> Or(rq.createdSalesCallId, rq.body.salesCallId)])

\* "Skip notification creation for now due to validation issues": the
\* handler logs the skip and calls Notification.create nowhere
NotificationsAfter(table, rq) == table

\* the response sent as soon as the upsert has been attempted
Respond_BeforeDispatch(r) ==
  /\ req[r].pc \in {"upserted", "dispatched"}
  /\ Set(r, [req[r] EXCEPT !.pc = "responded", !.res = Response(req[r])])
  /\ notifications' = NotificationsAfter(notifications, req[r])
  /\ UNCHANGED <<salesCalls, analytics, nextId, received, arg, out, elsewhere>>

\* the skipped notification, then res.status(200).json({...})
Respond(r) ==
  /\ req[r].pc = "dispatched"
  /\ Set(r, [req[r] EXCEPT !.pc = "responded", !.res = Response(req[r])])
  /\ notifications' = NotificationsAfter(notifications, req[r])
  /\ UNCHANGED <<salesCalls, analytics, nextId, received, arg, out, elsewhere>>

----------------------------------------------------------------------------
(* Specification: requests handled one after the other                     *)

Init ==
  /\ salesCalls = <<>>
  /\ analytics = <<>>
  /\ nextId = 1
  /\ received = 0
  /\ req = [r \in Slots |-> Idle]
  /\ arg = NoArg
  /\ out = Pending
  /\ notifications = <<>>
  /\ ToolsIdle /\ SocketIdle

Next ==
  \/ PostSalesCall
  \/ PutSalesCall
  \/ Receive(1)
  \/ Validate(1)
  \/ Extract(1)
  \/ FindByPk(1)
  \/ Update(1)
  \/ Create(1)
  \/ Dispatch(1)
  \/ OrgLookup(1)
  \/ AnalyticsCreate(1)
  \/ Respond(1)

Spec == Init /\ [][Next]_vars

\* a step of the handler after the request has arrived: the continuation of
\* an await, which the event loop runs once the awaited call has settled
HandlerStep(r) ==
  \/ Validate(r)
  \/ Extract(r)
  \/ FindByPk(r)
  \/ Update(r)
  \/ Create(r)
  \/ Dispatch(r)
  \/ OrgLookup(r)
  \/ AnalyticsCreate(r)
  \/ Respond(r)

\* the last request the model admits is still to come: the requests before
\* it were rejected by the validators and left the record store as it was
FairInit ==
  /\ salesCalls = <<>>
  /\ analytics = <<>>
  /\ nextId = 1
  /\ received = MaxRequests - 1
  /\ req = [r \in Slots |-> Idle]
  /\ arg = NoArg
  /\ out = Pending
  /\ notifications = <<>>
  /\ ToolsIdle /\ SocketIdle

\* one request from its arrival to its response, every awaited call settling
FairSpec == FairInit /\ [][Next]_vars /\ WF_vars(HandlerStep(1))

----------------------------------------------------------------------------
(* Specification: two requests in flight. Each await of the handler gives  *)
(* the event loop to the other invocation, so the steps of two requests    *)
(* interleave in every order                                               *)

\* bodies that name the stored call: every field supplied, none supplied, a
\* duration that is no duration; and a body that names no call
ConcurrentBodies ==
  {Extend(FullContent, Uuid(1), Sym("org-1")),
   Extend(EmptyContent, Uuid(1), Null),
   Extend(SparseContent, Uuid(1), Null),
   Extend(SparseContent, Null, Null)}

\* a request arrives while another may be in flight
ReceiveConcurrently(r) ==
  /\ req[r].pc \in {"idle", "responded"}
  /\ received < MaxRequests
  /\ \E body \in ConcurrentBodies :
       Set(r, [Idle EXCEPT !.pc = "received", !.body = body])
  /\ received' = received + 1
  /\ UNCHANGED <<salesCalls, analytics, nextId, arg, out,
                 notifications, elsewhere>>

ConcurrentNext ==
  \/ PostSalesCall
  \/ ReceiveConcurrently(1)
  \/ ReceiveConcurrently(2)
  \/ HandlerStep(1)
  \/ HandlerStep(2)

ConcurrentSpec == Init /\ [][ConcurrentNext]_vars

----------------------------------------------------------------------------
(* Specification of the /sales-calls routes with their users: each request *)
(* is one action, from authenticateToken to the response                   *)

\* number of requests to the routes in one behaviour
MaxHttp == 3

\* req.user as authenticateToken sets it: two representatives and a manager
\* of one tenant
RouteUsers ==
  {[id |-> Sym("rep-1"), role |-> "sales_representative",
    organization_id |-> Sym("org-1")],
   [id |-> Sym("rep-2"), role |-> "sales_representative",
    organization_id |-> Sym("org-1")],
   [id |-> Sym("manager-1"), role |-> "sales_manager",
    organization_id |-> Sym("org-1")]}

\* authenticateToken and requireRole: 401 without a user, 403 for a role
\* that is not allowed, 0 when the request goes on to the handler
Denied(user) ==
  IF user = Null THEN 401
  ELSE IF user.role \notin {"sales_representative", "sales_manager",
                               "admin", "super_admin"} THEN 403
  ELSE 0

\* res.status(status).json(...) of request number http.n + 1
Answer(route, user, id, status) ==
  http' = [n |-> http.n + 1, route |-> route, user |-> user, id |-> id,
           status |-> status]

\* SalesCall.findOne({ where: { id, organization_id: organizationId } })
FindOne(id, organizationId) ==
  IF id \in DOMAIN salesCalls /\ salesCalls[id].organization_id = organizationId
    THEN salesCalls[id] ELSE Null

\* bodies of POST /sales-calls: a call for either representative, and a
\* body without sales_representative_id
PostBodies ==
  {[customer_name |-> Sym("customer-1"), appointment_date |-> Date(2023),
    sales_representative_id |-> rep, notes |-> Sym("note-1")] :
     rep \in {Sym("rep-1"), Sym("rep-2"), Null}}

\* POST /sales-calls
PostRoute ==
  /\ http.n < MaxHttp
  /\ \E user \in RouteUsers \cup {Null}, b \in PostBodies, ok \in BOOLEAN :
       LET row == Assign(SalesCallDefaults,
                    [customer_name |-> b.customer_name,
                     appointment_date |-> b.appointment_date,
                     sales_representative_id |-> b.sales_representative_id,
                     organization_id |-> user.organization_id,
                     notes |-> b.notes])
       IN  IF Denied(user) # 0
             THEN /\ Answer("POST /", user, 0, Denied(user))
                  /\ UNCHANGED <<salesCalls, nextId>>
           ELSE IF b.sales_representative_id = Null
             THEN /\ Answer("POST /", user, 0, 400)
                  /\ UNCHANGED <<salesCalls, nextId>>
           ELSE IF /\ ok
                   /\ nextId <= MaxCalls
                   /\ ValidSalesCall(row, DOMAIN row)
                   /\ ForeignKeyHolds(row)
             THEN /\ salesCalls' = [i \in DOMAIN salesCalls \cup {nextId} |->
                                      IF i = nextId THEN row ELSE salesCalls[i]]
                  /\ nextId' = nextId + 1
                  /\ Answer("POST /", user, nextId, 201)
             ELSE /\ Answer("POST /", user, 0, 500)
                  /\ UNCHANGED <<salesCalls, nextId>>
  /\ UNCHANGED <<analytics, received, req, arg, out, notifications,
                 migrations, executed, cli, sockets, liveSessions>>

\* the part of a route after the validators: findOne, 404 when the tenant
\* holds no such call, salesCall.update(values), 200, and 500 when the
\* update throws
FindAndUpdate(route, user, id, values, ok) ==
  IF FindOne(id, user.organization_id) = Null
    THEN /\ Answer(route, user, id, 404)
         /\ UNCHANGED salesCalls
  ELSE IF ok /\ ValidSalesCall(Assign(salesCalls[id], values), DOMAIN values)
    THEN /\ salesCalls' = [salesCalls EXCEPT ![id] = Assign(@, values)]
         /\ Answer(route, user, id, 200)
    ELSE /\ Answer(route, user, id, 500)
         /\ UNCHANGED salesCalls

\* bodies of PUT /sales-calls/:id: a note, a call cancelled and handed to
\* the other representative, a status the validators reject
PutBodies ==
  {[notes |-> Sym("note-2")],
   [status |-> Sym("cancelled"), sales_representative_id |-> Sym("rep-2")],
   [status |-> Sym("bogus")]}

\* PUT /sales-calls/:id
PutRoute ==
  /\ http.n < MaxHttp
  /\ \E user \in RouteUsers \cup {Null}, id \in 1..MaxCalls,
        b \in PutBodies, ok \in BOOLEAN :
       IF Denied(user) # 0
         THEN Answer("PUT /:id", user, id, Denied(user)) /\ UNCHANGED salesCalls
       ELSE IF "status" \in DOMAIN b /\ b.status \notin Statuses
         THEN Answer("PUT /:id", user, id, 400) /\ UNCHANGED salesCalls
       ELSE FindAndUpdate("PUT /:id", user, id, b, ok)
  /\ UNCHANGED <<analytics, nextId, received, req, arg, out, notifications,
                 migrations, executed, cli, sockets, liveSessions>>

\* POST /sales-calls/:id/start
StartRoute ==
  /\ http.n < MaxHttp
  /\ \E user \in RouteUsers \cup {Null}, id \in 1..MaxCalls, ok \in BOOLEAN :
       IF Denied(user) # 0
         THEN Answer("POST /:id/start", user, id, Denied(user))
              /\ UNCHANGED salesCalls
       ELSE FindAndUpdate("POST /:id/start", user, id,
                          [status |-> Sym("in_progress"),
                           call_start_time |-> Now], ok)
  /\ UNCHANGED <<analytics, nextId, received, req, arg, out, notifications,
                 migrations, executed, cli, sockets, liveSessions>>

\* bodies of POST /sales-calls/:id/complete: a sale, and an outcome the
\* validators reject
CompleteBodies ==
  {[outcome |-> Sym("sale"), sale_amount |-> Num(5000),
    notes |-> Sym("note-3")],
   [outcome |-> Sym("bogus"), sale_amount |-> Null, notes |-> Null]}

\* POST /sales-calls/:id/complete
CompleteRoute ==
  /\ http.n < MaxHttp
  /\ \E user \in RouteUsers \cup {Null}, id \in 1..MaxCalls,
        b \in CompleteBodies, ok \in BOOLEAN :
       IF Denied(user) # 0
         THEN Answer("POST /:id/complete", user, id, Denied(user))
              /\ UNCHANGED salesCalls
       ELSE IF b.outcome \notin Outcomes
         THEN Answer("POST /:id/complete", user, id, 400)
              /\ UNCHANGED salesCalls
       ELSE FindAndUpdate("POST /:id/complete", user, id,
                          [status |-> Sym("completed"), outcome |-> b.outcome,
                           sale_amount |-> b.sale_amount,
                           call_end_time |-> Now, notes |-> b.notes], ok)
  /\ UNCHANGED <<analytics, nextId, received, req, arg, out, notifications,
                 migrations, executed, cli, sockets, liveSessions>>

RestNext ==
  \/ PostRoute
  \/ PutRoute
  \/ StartRoute
  \/ CompleteRoute

RestSpec == Init /\ [][RestNext]_vars

----------------------------------------------------------------------------
(* Specification of the migration tool (class DatabaseMigrator): each run  *)
(* of a command is one action, from connect to disconnect                  *)

\* number of runs of the tool in one behaviour
MaxCommands == 4

\* an entry of the migrations directory: <name>.sql, or <name>_rollback.sql;
\* prefix is the number the file name starts with
File(name, prefix, rollback) ==
  [name |-> name, prefix |-> prefix, rollback |-> rollback]

\* the migrations directory: three migrations and the rollback file of the
\* first
Directory ==
  {File("001_initial_schema", 1, FALSE),
   File("001_initial_schema", 1, TRUE),
   File("002_make_organization_id_optional", 2, FALSE),
   File("004_make_sales_calls_organization_id_optional", 4, FALSE)}

\* migrations whose SQL itself ends with
\* INSERT INTO migrations (migration_name, status) VALUES ('<name>', 'success')
SelfRecording ==
  {"001_initial_schema", "002_make_organization_id_optional"}

\* rollback files whose SQL drops the migrations table
DropsMigrationsTable == {"001_initial_schema"}

\* .sort() of file names that start with a zero-padded number
RECURSIVE Sorted(_)
Sorted(files) ==
  IF files = {} THEN <<>>
  ELSE LET first == CHOOSE f \in files : \A g \in files : f.prefix <= g.prefix
       IN  <<first.name>> \o Sorted(files \ {first})

\* getMigrationFiles: the .sql files that are no rollback files, sorted
GetMigrationFiles == Sorted({f \in Directory : ~f.rollback})

\* fs.existsSync(rollbackPath)
RollbackFileExists(name) == File(name, 1, TRUE) \in Directory

Record(name, status) == [migration_name |-> name, status |-> status]

\* SELECT id FROM migrations WHERE migration_name = $1 AND status = $2
\* with [migrationName, 'success']
SuccessRows(table, name) ==
  {i \in DOMAIN table : table[i] = Record(name, "success")}

\* runMigration: skipped when recorded as success; otherwise the SQL runs
\* in a transaction and a success record is inserted; when the SQL fails
\* (it does for the migration named bad) a failed record is inserted and
\* the error is thrown
RunMigration(name, db, bad) ==
  IF SuccessRows(db.table, name) # {}
    THEN db
  ELSE IF name = bad
    THEN [db EXCEPT !.table = Append(@, Record(name, "failed")), !.exit = 1]
  ELSE LET committed == IF name \in SelfRecording
                          THEN Append(db.table, Record(name, "success"))
                          ELSE db.table
       IN  [db EXCEPT !.table = Append(committed, Record(name, "success")),
                      !.log = Append(@, name)]

\* for (const migrationFile of migrationFiles) await this.runMigration(...):
\* the first error ends the run
RECURSIVE RunMigrations(_, _, _)
RunMigrations(files, db, bad) ==
  IF files = <<>> \/ db.exit # 0 THEN db
  ELSE RunMigrations(Tail(files), RunMigration(Head(files), db, bad), bad)

\* npm run migrate
Migrate ==
  /\ cli.n < MaxCommands
  /\ \E bad \in {f.name : f \in Directory} \cup {"none"} :
       LET db == RunMigrations(GetMigrationFiles,
                               [table |-> migrations, log |-> executed,
                                exit |-> 0], bad)
       IN  /\ migrations' = db.table
           /\ executed' = db.log
           /\ cli' = [n |-> cli.n + 1, command |-> "migrate", name |-> "",
                      exit |-> db.exit]
  /\ UNCHANGED <<salesCalls, analytics, nextId, received, req, arg, out,
                 notifications, http, sockets, liveSessions>>

\* the server binds the values to the placeholders of the query text: a
\* query that names fewer placeholders than it is given values is refused
BindError(placeholders, values) == placeholders # values

\* SELECT id FROM migrations WHERE migration_name = $1 AND status = $1
\* with [migrationName, 'success']: one placeholder, two values
RollbackRows(table, name) ==
  {i \in DOMAIN table :
     table[i].migration_name = name /\ table[i].status = name}

\* DELETE FROM migrations WHERE migration_name = $1
Delete(table, name) ==
  SelectSeq(table, LAMBDA row : row.migration_name # name)

\* runRollback: the check of the migrations table, the check of the
\* rollback file, the rollback SQL in a transaction, the removal of the
\* record; an error is thrown to rollback(), which exits with 1
RunRollback(name, db, ok) ==
  IF BindError(1, 2) THEN [db EXCEPT !.exit = 1]
  ELSE IF RollbackRows(db.table, name) = {} THEN db
  ELSE IF ~RollbackFileExists(name) THEN db
  ELSE IF ~ok THEN [db EXCEPT !.exit = 1]
  ELSE IF name \in DropsMigrationsTable
    THEN [db EXCEPT !.table = <<>>, !.log = Append(@, name \o "_rollback"),
                    !.exit = 1]
  ELSE [db EXCEPT !.table = Delete(@, name),
                  !.log = Append(@, name \o "_rollback")]

\* npm run migrate:rollback <name>
Rollback ==
  /\ cli.n < MaxCommands
  /\ \E name \in {f.name : f \in Directory}, ok \in BOOLEAN :
       LET db == RunRollback(name, [table |-> migrations, log |-> executed,
                                    exit |-> 0], ok)
       IN  /\ migrations' = db.table
           /\ executed' = db.log
           /\ cli' = [n |-> cli.n + 1, command |-> "rollback", name |-> name,
                      exit |-> db.exit]
  /\ UNCHANGED <<salesCalls, analytics, nextId, received, req, arg, out,
                 notifications, http, sockets, liveSessions>>

MigratorNext ==
  \/ Migrate
  \/ Rollback

MigratorSpec == Init /\ [][MigratorNext]_vars

----------------------------------------------------------------------------
(* Specification of the join_live_session handler: the handler is applied  *)
(* to sockets whose socket.user is set and to the data the client sends    *)

\* socket.user: two representatives and a manager of one tenant
SocketUsers ==
  {[id |-> Sym("rep-1"), organizationId |-> Sym("org-1")],
   [id |-> Sym("rep-2"), organizationId |-> Sym("org-1")],
   [id |-> Sym("manager-1"), organizationId |-> Sym("org-1")]}

\* liveSession.managerId and liveSession.salesRepresentativeId: the model
\* defines no such attribute, the handler reads undefined
ManagerId(row) == Null
SalesRepresentativeId(row) == Null

\* the data of join_live_session: the token of the session or another
\* token, and a role field of any value, or none
JoinData ==
  [sessionToken : {"token-1", "token-9"},
   role : {"manager", "sales_rep", "observer", "none"}]

\* socket.join(`org_${...}`) and socket.join(`session_${liveSession.id}`)
Room(kind, id) == <<kind, id>>

\* the class method as a model with the method would answer: the row with
\* the token, 0 for none
FindByToken_Defined(sessionToken) ==
  [threw |-> FALSE,
   id |-> IF \E i \in DOMAIN liveSessions :
                liveSessions[i].session_token = sessionToken
            THEN CHOOSE i \in DOMAIN liveSessions :
                   liveSessions[i].session_token = sessionToken
            ELSE 0]

\* LiveSession.findByToken(sessionToken): LiveSession is destructured from
\* the placeholder module, whose LiveSession is null and is never assigned,
\* and the model defines no findByToken: the call throws a TypeError
FindByToken(sessionToken) == [threw |-> TRUE, id |-> 0]

\* handleJoinLiveSession throws: not found, or access denied for the role
\* the client names
JoinThrows(user, data) ==
  LET found == FindByToken(data.sessionToken)
  IN  \/ found.threw
      \/ found.id = 0
      \/ /\ data.role = "manager"
         /\ ManagerId(liveSessions[found.id]) # user.id
      \/ /\ data.role = "sales_rep"
         /\ SalesRepresentativeId(liveSessions[found.id]) # user.id

\* socket.on('join_live_session'): handleJoinLiveSession, and the catch
\* that emits 'error' { message: 'Failed to join live session' }
JoinLiveSession ==
  \E s \in SocketIds, data \in JoinData :
    /\ sockets[s].user # Null
    /\ IF JoinThrows(sockets[s].user, data)
         THEN /\ sockets' = [sockets EXCEPT ![s].emitted = "error",
                                            ![s].data = data]
              /\ UNCHANGED liveSessions
         ELSE LET id == FindByToken(data.sessionToken).id
              IN  /\ sockets' = [sockets EXCEPT
                       ![s].rooms = @ \cup {Room("session", id)},
                       ![s].emitted = "session_joined",
                       ![s].data = data]
                  /\ liveSessions' = [liveSessions EXCEPT ![id].status =
                       IF @ = "connecting" THEN "active" ELSE @]
    /\ UNCHANGED <<salesCalls, analytics, nextId, received, req, arg, out,
                   notifications, http, migrations, executed, cli>>

\* the sockets carry the user the authentication middleware has set and are
\* in the room of the user's organization; live_sessions holds one row, with
\* the attributes the LiveSession model defines
SocketInit ==
  /\ salesCalls = <<>>
  /\ analytics = <<>>
  /\ nextId = 1
  /\ received = 0
  /\ req = [r \in Slots |-> Idle]
  /\ arg = NoArg
  /\ out = Pending
  /\ notifications = <<>>
  /\ ToolsIdle
  /\ sockets \in [SocketIds ->
                    {[Unconnected EXCEPT !.user = u, !.rooms = {Room("org", u.organizationId)}] :
                       u \in SocketUsers}]
  /\ liveSessions \in
       {<<[organization_id |-> Sym("org-1"), sales_call_id |-> Null,
           user_id |-> Sym("rep-1"), session_token |-> "token-1",
           status |-> st]>> : st \in {"connecting", "active"}}

SocketSpec == SocketInit /\ [][JoinLiveSession]_vars

----------------------------------------------------------------------------
(* Specification of the duration block and the sentiment block alone: one  *)
(* value of meeting_details.duration or of sentiment_category is drawn,    *)
(* and the block of the handler is applied to it                           *)

\* longest duration text, and most words in a category
MaxDurationLen == 5
MaxCategoryWords == 2

\* characters of duration texts
DurationAlphabet == {"0", "1", "5", ":", "h", "m", " ", ".", "a"}

\* durations sent as JSON numbers
DurationNumbers == {Num(0), Num(90), Num(0 - 5)}

\* words of sentiment categories: the six keywords in some letter case, and
\* words that are no keyword
CategoryWords ==
  {<<"G", "O", "O", "D">>, <<"I", "m", "p", "r", "e", "s", "s", "i", "v", "e">>,
   S_positive, <<"B", "A", "D">>, C_ugly, S_negative,
   <<"o", "k">>, <<" ">>, <<"n", "o", "t">>}

\* all texts over an alphabet, up to a length
Texts(alphabet, n) == UNION {[1..k -> alphabet] : k \in 0..n}

\* the words written one after the other
RECURSIVE Concat(_)
Concat(words) ==
  IF words = <<>> THEN <<>> ELSE Head(words) \o Concat(Tail(words))

DurationArgs ==
  {[kind |-> "duration", value |-> v, tokens |-> <<>>] :
     v \in {Str(s) : s \in Texts(DurationAlphabet, MaxDurationLen)}
             \cup DurationNumbers \cup {Null}}

CategoryArgs ==
  {[kind |-> "category", value |-> Str(Concat(w)), tokens |-> w] :
     w \in Texts(CategoryWords, MaxCategoryWords)}
    \cup {[kind |-> "category", value |-> Null, tokens |-> <<>>]}

ParserInit ==
  /\ salesCalls = <<>>
  /\ analytics = <<>>
  /\ nextId = 1
  /\ received = 0
  /\ req = [r \in Slots |-> Idle]
  /\ arg \in DurationArgs \cup CategoryArgs
  /\ out = Pending
  /\ notifications = <<>>
  /\ ToolsIdle /\ SocketIdle

\* let duration = null; if (meeting_details?.duration) { ... }
DurationBlock ==
  /\ arg.kind = "duration"
  /\ out = Pending
  /\ out' = ParseDuration(arg.value)
  /\ UNCHANGED <<salesCalls, analytics, nextId, received, req, arg,
                 notifications, elsewhere>>

\* let mappedSentiment = null; if (sentiment_analysis?.sentiment_category) ...
SentimentBlock ==
  /\ arg.kind = "category"
  /\ out = Pending
  /\ out' = MapSentiment(arg.value)
  /\ UNCHANGED <<salesCalls, analytics, nextId, received, req, arg,
                 notifications, elsewhere>>

ParserNext ==
  \/ DurationBlock
  \/ SentimentBlock

ParserSpec == ParserInit /\ [][ParserNext]_vars

----------------------------------------------------------------------------
(* Properties of the ingestion endpoint                                    *)

\* the handler has answered
Responded == req[1].pc = "responded"

\* a body the validators reject, stated on the body itself
Malformed(body) ==
  \/ body.transcript_data = BadShape
  \/ body.sentiment_analysis = BadShape
  \/ body.user_identification = BadShape
  \/ body.meeting_id = BadShape

\* the step in which salesCall.update is applied to the stored row
UpdateStep == req[1].pc = "update" /\ req'[1].wrote = "updated"

\* the row the request names
TargetId == req[1].body.salesCallId.v

\* an attribute that holds a value
Populated(v) == v # Null /\ v # List(<<>>)

\* C1: an ingestion whose salesCallId names no stored Call Record creates
\* exactly one new Call Record, with status 'completed', outcome absent and
\* sale amount absent.
C1_UnseenIdCreatesRecord ==
  (Responded /\ req[1].lookup = "miss")
    => /\ req[1].wrote = "created"
       /\ req[1].createdSalesCallId.v \in DOMAIN salesCalls
       /\ LET row == salesCalls[req[1].createdSalesCallId.v]
          IN  /\ row.status = Sym("completed")
              /\ row.outcome = Null
              /\ row.sale_amount = Null

\* C2: a well-formed request that omits every optional field is answered
\* with success, salesCallCreated = true and the identifier of a newly
\* created Call Record that is in the record store (no store call rejects).
C2_EmptyBodyCreatesRecord ==
  (Responded /\ req[1].body = Extend(EmptyContent, Null, Null)
     /\ req[1].faults = {})
    => /\ req[1].res.success
       /\ req[1].res.salesCallCreated
       /\ req[1].wrote = "created"
       /\ req[1].res.salesCallId = req[1].createdSalesCallId
       /\ req[1].res.salesCallId.v \in DOMAIN salesCalls

\* C3: for a request whose organizationId is not in the tenant store (here
\* one that creates, carries a sentiment block, and meets no store
\* rejection) a Call Record and an Analytics Record are created, both
\* without tenant reference, and the endpoint returns success.
C3_UnknownTenantStillStored ==
  (Responded /\ req[1].body = Extend(FullContent, Null, UnknownOrg)
     /\ req[1].faults = {})
    => /\ req[1].res.success
       /\ req[1].wrote = "created"
       /\ salesCalls[req[1].createdSalesCallId.v].organization_id = Null
       /\ req[1].inserted
       /\ analytics[Len(analytics)].organization_id = Null

\* C4: salesCallCreated in the response is true exactly when the request
\* created a new Call Record; it is false after an update and when no
\* record was written.
C4_FlagIffCreated ==
  (Responded /\ req[1].res.status = 200)
    => (req[1].res.salesCallCreated <=> req[1].wrote = "created")

\* C5: the salesCallId in the response is the identifier of the Call Record
\* the request created or updated; a request that wrote no record (lookup
\* miss, persistence failure) returns no identifier.
C5_ReturnedIdNamesWrittenRecord ==
  (Responded /\ req[1].res.status = 200)
    => IF req[1].wrote = "none"
         THEN req[1].res.salesCallId = Null
         ELSE /\ req[1].res.salesCallId = req[1].createdSalesCallId
              /\ req[1].res.salesCallId.v \in DOMAIN salesCalls

\* duration values that are omitted or are no duration
NoDuration == {Null, Str(D_abc), Str(D_colon), Str(D_ah)}

C7_NoFieldRegresses ==
  [][UpdateStep
       => \A a \in {"duration", "call_start_time", "call_end_time",
                    "recording_url", "transcript_url",
                    "otter_ai_recording_id", "performance_score",
                    "customer_sentiment", "strengths", "weaknesses"} :
            Populated(salesCalls[TargetId][a])
              => Populated(salesCalls'[TargetId][a])]_vars

\* C8 as stated: the update leaves customer name and email, status, outcome,
\* sale amount, tenant id and representative id unchanged.
C8_OutcomeUntouched ==
  [][UpdateStep
       => \A a \in {"customer_name", "customer_email", "status", "outcome",
                    "sale_amount", "organization_id",
                    "sales_representative_id"} :
            salesCalls'[TargetId][a] = salesCalls[TargetId][a]]_vars

\* C8 (amended): the update leaves customer name and email, status, sale
\* amount, tenant id, representative id, appointment date and notes
\* unchanged; it sets outcome and script compliance to absent and
\* recommendations, key topics and objections to empty lists.
C8_UpdateFrame ==
  [][UpdateStep
       => /\ \A a \in {"customer_name", "customer_email", "status",
                       "sale_amount", "organization_id",
                       "sales_representative_id", "appointment_date",
                       "notes"} :
               salesCalls'[TargetId][a] = salesCalls[TargetId][a]
          /\ salesCalls'[TargetId].outcome = Null
          /\ salesCalls'[TargetId].script_compliance = Null
          /\ \A a \in {"recommendations", "key_topics_covered",
                       "objections_handled"} :
               salesCalls'[TargetId][a] = List(<<>>)]_vars

C8_Witness ==
  /\ req[1].wrote = "updated"
  /\ req[1].salesCall.outcome = Sym("sale")
  /\ req[1].salesCall.sale_amount = Num(5000)
  /\ salesCalls[TargetId].analysis_data = AnalysisData(req[1].body)
  /\ salesCalls[TargetId].outcome = Null
  /\ salesCalls[TargetId].sale_amount = Num(5000)
  /\ salesCalls[TargetId].status = Sym("completed")

\* C9: a request that passes shape validation is answered with success
\* (status 200), whichever record-store, tenant-store and analytics-store
\* calls reject; only a malformed request is answered with a failure.
C9_OnlyValidationFails ==
  Responded
    => IF Malformed(req[1].body)
         THEN ~req[1].res.success
         ELSE req[1].res.success /\ req[1].res.status = 200

C9_Witness ==
  /\ Responded
  /\ req[1].res.success
  /\ {"update", "Organization.findByPk", "Analytics.create"}
       \subseteq req[1].faults

\* C10: a malformed request is answered 400 with the failing fields and
\* never enters a later stage: it writes no Call Record and inserts no
\* Analytics Record.
C10_MalformedRejected ==
  (req[1].pc # "idle" /\ Malformed(req[1].body))
    => /\ req[1].pc \in {"received", "responded"}
       /\ req[1].wrote = "none"
       /\ ~req[1].inserted
       /\ req[1].lookup = "none"
       /\ Responded
            => /\ req[1].res.status = 400
               /\ ~req[1].res.success
               /\ req[1].res.details # {}
               /\ \A f \in req[1].res.details : req[1].body[f] = BadShape
               /\ req[1].body.sentiment_analysis = BadShape
                    => "sentiment_analysis" \in req[1].res.details

C10_Witness ==
  /\ Responded
  /\ req[1].res.status = 400
  /\ req[1].res.details =
       {"transcript_data", "user_identification", "meeting_id"}
  /\ salesCalls # <<>>

----------------------------------------------------------------------------
(* Properties of the side-effect dispatcher                                *)

\* the request has passed validation and the analytics block
Dispatched ==
  \/ req[1].pc = "dispatched"
  \/ req[1].pc = "responded" /\ req[1].res.status = 200

\* the Analytics Record the request inserted
Inserted == analytics[Len(analytics)]

\* the raw payload as an Analytics Record carries it
RawPayload(body) ==
  [transcript |-> Or(body.transcript, Null),
   captured_data_url |-> Or(body.captured_data_url, Null),
   sentiment_analysis |-> body.sentiment_analysis,
   user_identification |-> body.user_identification,
   user_info |-> body.user_info,
   meeting_details |-> body.meeting_details,
   meeting_id |-> body.meeting_id]

\* C11: after the upsert step, whether it succeeded or failed, the pipeline
\* attempts to create an Analytics Record with the raw payload: whenever the
\* analytics store does not reject the insert, the payload of a validated
\* request is captured by an Analytics Record.
C11_PayloadAlwaysCaptured ==
  (Dispatched /\ "Analytics.create" \notin req[1].faults)
    => /\ req[1].inserted
       /\ \A f \in DOMAIN RawPayload(req[1].body) :
            Inserted.report_data.f[f] = RawPayload(req[1].body)[f]

\* the Call Record as the request wrote it
WrittenRow(rq) ==
  IF rq.wrote = "updated"
    THEN Assign(rq.salesCall, UpdateValues(rq.body, rq.salesCall))
    ELSE Assign(SalesCallDefaults, SalesCallData(rq.body))

\* the analytics insert of the request was attempted and failed
InsertFailed(rq) == WantsAnalytics(rq) /\ ~rq.inserted

\* C12: a failure of the Analytics Record insert is isolated: the step that
\* fails leaves the record store and the resolved identifier as they are and
\* goes on to the response, and the response reports success with the
\* identifier of the Call Record written earlier, which is stored as written.
C12_AnalyticsFailureIsolated ==
  [][/\ (req[1].pc = "analytics" /\ ~req'[1].inserted)
          => /\ salesCalls' = salesCalls
             /\ req'[1].pc = "dispatched"
             /\ req'[1].createdSalesCallId = req[1].createdSalesCallId
     /\ (req[1].pc = "dispatched" /\ InsertFailed(req[1])
           /\ req[1].wrote # "none")
          => /\ req'[1].res.success
             /\ req'[1].res.status = 200
             /\ req'[1].res.salesCallId = req[1].createdSalesCallId
             /\ req'[1].res.salesCallId.v \in DOMAIN salesCalls'
             /\ salesCalls'[req'[1].res.salesCallId.v] = WrittenRow(req[1])]_vars

C12_Witness ==
  /\ Responded
  /\ req[1].wrote = "updated"
  /\ "Analytics.create" \in req[1].faults
  /\ req[1].res.success
  /\ req[1].res.salesCallId = Uuid(1)
  /\ salesCalls[1] = WrittenRow(req[1])
  /\ salesCalls[1].duration = Num(5400)

\* C13: every Analytics Record has a tenant id that is absent or names a
\* tenant of the tenant store; when the tenant lookup finds nothing or
\* fails, the record is stored with the tenant id absent (unless the
\* analytics store rejects the insert).
C13_UnconfirmedTenantStoredAbsent ==
  /\ \A i \in 1..Len(analytics) :
       analytics[i].organization_id \in Organizations \cup {Null}
  /\ (Dispatched /\ WantsAnalytics(req[1])
        /\ Truthy(req[1].body.organizationId)
        /\ \/ req[1].body.organizationId \notin Organizations
           \/ "Organization.findByPk" \in req[1].faults
        /\ "Analytics.create" \notin req[1].faults)
       => /\ req[1].inserted
          /\ Inserted.organization_id = Null

\* C14: an Analytics Record carries a Call Record reference only when the
\* request created or updated a Call Record, and the reference is then the
\* identifier of that stored record.
C14_ReferenceNamesResolvedRecord ==
  (Dispatched /\ req[1].inserted)
    => IF req[1].wrote = "none"
         THEN Inserted.report_data.f.sales_call_id = Null
         ELSE /\ Inserted.report_data.f.sales_call_id
                   = req[1].createdSalesCallId
              /\ req[1].createdSalesCallId.v \in DOMAIN salesCalls

----------------------------------------------------------------------------
(* Properties of the field extractor and of record creation                *)

\* block x of the payload supplies field f
Supplies(x, f) == x.t = "obj" /\ x.f[f] \notin {Null, Str(<<>>)}

\* the first of the values that is supplied: the field of user_info, else
\* the field of user_identification, else the fallback
Preferred(body, f, fallback) ==
  IF Supplies(body.user_info, f) THEN body.user_info.f[f]
  ELSE IF Supplies(body.user_identification, f)
    THEN body.user_identification.f[f]
  ELSE fallback

\* the point in time a payload's four-digit year stands for
TimeOf(v) == Date(DigitsValue(v.v))

\* C18: in the values handed to the record store on creation, customer name
\* and email come from user_info when it supplies them, else from
\* user_identification, else are "Unknown Customer" and absent; the
\* appointment time is meeting_details.start_datetime when supplied and the
\* current time otherwise; call start and end are absent when not supplied.
C18_FieldsExtracted ==
  req[1].salesCallData # Null =>
    LET body == req[1].body
        data == req[1].salesCallData
        md   == body.meeting_details
    IN  /\ data.customer_name
             = Preferred(body, "user_name", Sym("Unknown Customer"))
        /\ data.customer_email = Preferred(body, "user_email", Null)
        /\ data.appointment_date
             = IF Supplies(md, "start_datetime")
                 THEN TimeOf(md.f.start_datetime) ELSE Now
        /\ data.call_start_time
             = IF Supplies(md, "start_datetime")
                 THEN TimeOf(md.f.start_datetime) ELSE Null
        /\ data.call_end_time
             = IF Supplies(md, "end_datetime")
                 THEN TimeOf(md.f.end_datetime) ELSE Null

C18_Witness ==
  /\ req[1].salesCallData # Null
  /\ req[1].body.user_info = UserBlock("info")
  /\ req[1].body.user_identification = UserBlock("legacy")
  /\ req[1].salesCallData.customer_name = Sym("info")
  /\ req[1].salesCallData.customer_email = Sym("info")
  /\ req[1].salesCallData.appointment_date = Date(2024)
  /\ req[1].salesCallData.call_end_time = Date(2025)

\* the step in which the pipeline writes a Call Record
WriteStep == req[1].pc \in {"update", "create"} /\ req'[1].wrote # "none"

\* meeting_score values above the ceiling
OverflowingScores == {Num(1250), Str(<<"1", "2", ".", "5">>)}

----------------------------------------------------------------------------
(* Properties of the duration block and the sentiment block                *)

\* a non-empty text of decimal digits
Numeral(s) == s # <<>> /\ \A i \in 1..Len(s) : s[i] \in Digits

\* the positions of character c in s
Places(s, c) == {i \in 1..Len(s) : s[i] = c}

\* the seconds a text of the form "H:M:S" or "M:S" stands for
ColonSeconds(s) ==
  {DigitsValue(SubSeq(s, 1, p[1] - 1)) * 3600
     + DigitsValue(SubSeq(s, p[1] + 1, p[2] - 1)) * 60
     + DigitsValue(SubSeq(s, p[2] + 1, Len(s))) :
     p \in {q \in Places(s, ":") \X Places(s, ":") :
              /\ q[1] < q[2]
              /\ Numeral(SubSeq(s, 1, q[1] - 1))
              /\ Numeral(SubSeq(s, q[1] + 1, q[2] - 1))
              /\ Numeral(SubSeq(s, q[2] + 1, Len(s)))}}
    \cup
  {DigitsValue(SubSeq(s, 1, i - 1)) * 60 + DigitsValue(SubSeq(s, i + 1, Len(s))) :
     i \in {j \in Places(s, ":") :
              /\ Numeral(SubSeq(s, 1, j - 1))
              /\ Numeral(SubSeq(s, j + 1, Len(s)))}}

\* the seconds a text of the form "Nh", N whole or with a fraction, "Nh Mm"
\* or "Nm" stands for, fractions of a second rounded
UnitSeconds(s) ==
  {DigitsValue(SubSeq(s, 1, Len(s) - 1)) * 3600 :
     x \in {y \in {1} : s # <<>> /\ s[Len(s)] = "h"
                          /\ Numeral(SubSeq(s, 1, Len(s) - 1))}}
    \cup
  {DigitsValue(SubSeq(s, 1, i - 1)) * 3600
     + (2 * DigitsValue(SubSeq(s, i + 1, Len(s) - 1)) * 3600
          + Pow10(Len(s) - 1 - i)) \div (2 * Pow10(Len(s) - 1 - i)) :
     i \in {j \in Places(s, ".") :
              /\ s[Len(s)] = "h"
              /\ Numeral(SubSeq(s, 1, j - 1))
              /\ Numeral(SubSeq(s, j + 1, Len(s) - 1))}}
    \cup
  {DigitsValue(SubSeq(s, 1, i - 1)) * 3600
     + DigitsValue(SubSeq(s, i + 2, Len(s) - 1)) * 60 :
     i \in {j \in Places(s, "h") :
              /\ j < Len(s) /\ s[j + 1] = " " /\ s[Len(s)] = "m"
              /\ Numeral(SubSeq(s, 1, j - 1))
              /\ Numeral(SubSeq(s, j + 2, Len(s) - 1))}}
    \cup
  {DigitsValue(SubSeq(s, 1, Len(s) - 1)) * 60 :
     x \in {y \in {1} : s # <<>> /\ s[Len(s)] = "m"
                          /\ Numeral(SubSeq(s, 1, Len(s) - 1))}}

\* the seconds a duration of one of the recognised forms stands for: a text
\* of the forms above, a bare integer text, or a JSON integer
Seconds(d) ==
  IF d.t = "num" THEN {d.v}
  ELSE IF d.t = "str"
    THEN ColonSeconds(d.v) \cup UnitSeconds(d.v)
           \cup {DigitsValue(d.v) : x \in {y \in {1} : Numeral(d.v)}}
  ELSE {}

\* the duration block has run on a duration
Parsed == arg.kind = "duration" /\ out # Pending

\* C15: for every duration of the form "H:M:S", "M:S", "Nh" (N whole or
\* fractional), "Nh Mm", "Nm" or a bare integer, the duration parser returns
\* the corresponding integer number of seconds.
C15_RecognisedFormsParse ==
  Parsed => \A n \in Seconds(arg.value) : out = Num(n)

\* C16: for a duration that is of none of the recognised forms the parser
\* yields 'absent': never zero, a negative number or a non-number.
C16_UnrecognisedIsAbsent ==
  (Parsed /\ Seconds(arg.value) = {}) => out = Null

\* the words of a category that belong to the positive and to the negative
\* family, in whatever letter case they are written
PositiveWords ==
  {<<"G", "O", "O", "D">>, <<"I", "m", "p", "r", "e", "s", "s", "i", "v", "e">>,
   S_positive}
NegativeWords == {<<"B", "A", "D">>, C_ugly, S_negative}

HasWord(words, family) == \E i \in 1..Len(words) : words[i] \in family

\* the sentiment block has run on a category
Mapped == arg.kind = "category" /\ out # Pending

\* C17: the mapper returns nothing when no category is supplied; a category
\* with a positive-family keyword maps to positive, also when it has a
\* negative-family keyword too; one with negative-family keywords only maps
\* to negative; every other category maps to neutral.
C17_SentimentMapped ==
  Mapped =>
    IF arg.tokens = <<>> THEN out = Null
    ELSE IF HasWord(arg.tokens, PositiveWords) THEN out = Str(S_positive)
    ELSE IF HasWord(arg.tokens, NegativeWords) THEN out = Str(S_negative)
    ELSE out = Str(<<"n", "e", "u", "t", "r", "a", "l">>)

C17_Witness ==
  /\ Mapped
  /\ arg.tokens = <<C_ugly, <<"G", "O", "O", "D">>>>
  /\ out = Str(S_positive)

----------------------------------------------------------------------------
(* Properties of the pipeline as a whole                                   *)

\* the positions of the handler in the order of the stages: received,
\* validated, extracted (the lookup, then the write chosen), upserted, side
\* effects being dispatched (the tenant check, then the insert), side
\* effects dispatched, responded
Stage(pc) ==
  CASE pc = "idle" -> 0
    [] pc = "received" -> 1
    [] pc = "validated" -> 2
    [] pc = "lookup" -> 3
    [] pc \in {"update", "create"} -> 4
    [] pc = "upserted" -> 5
    [] pc = "orglookup" -> 6
    [] pc = "analytics" -> 7
    [] pc = "dispatched" -> 8
    [] pc = "responded" -> 9

\* the writes of Call Records among the store calls of a request
RecordWrites(rq) ==
  {i \in DOMAIN rq.calls : rq.calls[i] \in {"SalesCall.update", "SalesCall.create"}}

\* the inserts of Analytics Records among the store calls of a request
AnalyticsInserts(rq) ==
  {i \in DOMAIN rq.calls : rq.calls[i] = "Analytics.create"}

\* a step of a request moves it to a later stage; the response is sent from
\* the validation (a 400) or after the side effects were dispatched, and it
\* is set once
StageStep ==
  LET a == req[1]
      b == req'[1]
  IN  \/ b = a
      \/ a.pc \in {"idle", "responded"} /\ b.pc = "received"
      \/ /\ Stage(b.pc) > Stage(a.pc)
         /\ a.res = Null
         /\ b.res # Null <=> b.pc = "responded"
         /\ b.pc = "responded"
              => \/ a.pc = "dispatched" /\ b.res.status = 200
                 \/ a.pc = "received" /\ b.res.status = 400
         /\ b.pc \in {"orglookup", "analytics", "dispatched"}
              => Stage(a.pc) >= Stage("upserted")

\* C22: a request passes the stages received, validated, extracted,
\* upserted, side effects dispatched, responded in that order and never goes
\* back; the write of the Call Record is attempted before the insert of the
\* Analytics Record; the response is sent only after both attempts, or from
\* the validation; and every request that has arrived is answered, once.
C22_StagesInOrder ==
  /\ [][StageStep]_vars
  /\ [](\A i \in RecordWrites(req[1]) :
          \A j \in AnalyticsInserts(req[1]) : i < j)
  /\ (req[1].pc = "received") ~> (req[1].pc = "responded")

\* a request that went through every stage: the update, then the insert,
\* then the response
C22_Witness ==
  /\ Responded
  /\ req[1].res.status = 200
  /\ req[1].calls = <<"SalesCall.update", "Analytics.create">>

C27_AtMostOneWriteEach ==
  \A r \in Slots :
    /\ Cardinality(RecordWrites(req[r])) <= 1
    /\ Cardinality(AnalyticsInserts(req[r])) <= 1

\* the update was rejected by the record store, the insert too, and the
\* request was answered after one attempt of each
C27_Witness ==
  /\ Responded
  /\ req[1].faults = {"update", "Analytics.create"}
  /\ req[1].calls = <<"SalesCall.update", "Analytics.create">>

\* C29: an ingestion that supplies organizationId and salesCallId modifies
\* the Call Record it names only if the record belongs to that organization.
C29_UpdateWithinTenant ==
  [][(/\ UpdateStep
      /\ Truthy(req[1].body.organizationId)
      /\ salesCalls[TargetId].organization_id # req[1].body.organizationId)
       => salesCalls'[TargetId] = salesCalls[TargetId]]_vars

----------------------------------------------------------------------------
(* Properties of two requests in flight                                    *)

\* the request was answered after it found the call and the record store
\* rejected none of its calls
FoundAndServed(rq) ==
  rq.pc = "responded" /\ rq.lookup = "hit" /\ rq.faults = {}

\* the values of the request are values the model accepts
Writable(rq) ==
  /\ ~SentimentThrows(rq.body)
  /\ ValidSalesCall(Assign(rq.salesCall, UpdateValues(rq.body, rq.salesCall)),
                    DOMAIN UpdateValues(rq.body, rq.salesCall))

\* both requests read the row before either of them wrote it
ReadTogether ==
  /\ FoundAndServed(req[1]) /\ FoundAndServed(req[2])
  /\ req[1].salesCall = req[2].salesCall

\* C21: of two ingestions in flight that name the same stored call, neither
\* is refused or fails because of the other: both are answered with success,
\* both have updated the record, and the record holds the values one of them
\* wrote, the one whose update was applied last.
C21_NeitherRefusedLastWins ==
  (/\ FoundAndServed(req[1]) /\ Writable(req[1])
   /\ FoundAndServed(req[2]) /\ Writable(req[2]))
    => /\ \A r \in Slots : /\ req[r].res.status = 200
                           /\ req[r].res.success
                           /\ req[r].wrote = "updated"
       /\ \E r \in Slots :
            LET values == UpdateValues(req[r].body, req[r].salesCall)
            IN  \A a \in DOMAIN values : salesCalls[TargetId][a] = values[a]

\* both requests read the row before either wrote it, both were answered
C21_Witness ==
  /\ ReadTogether
  /\ Writable(req[1]) /\ Writable(req[2])
  /\ req[1].body # req[2].body

\* the attributes an update keeps when the request does not supply them
KeptAttributes ==
  {"duration", "call_start_time", "call_end_time", "transcript_url",
   "recording_url", "otter_ai_recording_id"}

\* the step in which the request in slot r updates the stored row
UpdateStepOf(r) == req[r].pc = "update" /\ req'[r].wrote = "updated"

\* the stored value was written after the request read the row
WrittenSince(r, a) ==
  salesCalls[req[r].body.salesCallId.v][a] # req[r].salesCall[a]

\* C28 as stated: a duration, timestamp or recording reference written by
\* one request is never replaced by the stale value the other request read
\* before that write.
C28_NoStaleOverwrite ==
  [][\A r \in Slots : \A a \in KeptAttributes :
       (UpdateStepOf(r) /\ WrittenSince(r, a))
         => LET id == req[r].body.salesCallId.v
            IN  salesCalls'[id][a] # req[r].salesCall[a]]_vars

\* C28 (amended): an update writes, for each attribute, the value computed
\* from its own payload and from the row as the request read it: a kept
\* attribute the payload does not supply is written back with the value that
\* was read, whatever has been stored since.
C28_WritesWhatItRead ==
  [][\A r \in Slots :
       UpdateStepOf(r)
         => LET id == req[r].body.salesCallId.v
            IN  salesCalls'[id] =
                  Assign(salesCalls[id],
                         UpdateValues(req[r].body, req[r].salesCall))]_vars

\* the first request wrote a transcript, the second, which had read the row
\* before and supplies none, wrote back the absent transcript it had read
C28_Witness ==
  /\ ReadTogether
  /\ Truthy(req[1].body.transcript)
  /\ req[1].wrote = "updated" /\ req[2].wrote = "updated"
  /\ salesCalls[TargetId].transcript_url = Null

----------------------------------------------------------------------------
(* Properties of the /sales-calls routes                                   *)

\* the step is a request of a sales representative to update, start or
\* complete a call
ManagedByRepresentative ==
  /\ http'.n # http.n
  /\ http'.route \in {"PUT /:id", "POST /:id/start", "POST /:id/complete"}
  /\ http'.user # Null
  /\ http'.user.role = "sales_representative"

\* C24: a sales representative manages only their own calls: a request of a
\* representative to update, start or complete a call assigned to another
\* representative of the same organization does not change that call.
C24_RepresentativesManageOwnCalls ==
  [][\A id \in DOMAIN salesCalls :
       (/\ ManagedByRepresentative
        /\ salesCalls[id].organization_id = http'.user.organization_id
        /\ salesCalls[id].sales_representative_id # http'.user.id)
         => salesCalls'[id] = salesCalls[id]]_vars

----------------------------------------------------------------------------
(* Properties of the migration tool                                        *)

\* the migration has a record with status success
RecordedSuccess(table, name) ==
  \E i \in DOMAIN table : table[i] = Record(name, "success")

\* the entries of the log from position n + 1 on
Added(log, n) == SubSeq(log, n + 1, Len(log))

\* the migrations of the directory that were pending, in the order of their
\* file names
Pending_(table) ==
  SelectSeq(GetMigrationFiles, LAMBDA name : ~RecordedSuccess(table, name))

\* C25: the rollback of a migration that is recorded as success and has a
\* rollback file runs the rollback SQL and then removes the record of the
\* migration, so that the migration is pending again.
C25_RollbackRemovesRecord ==
  [][(/\ cli'.n # cli.n
      /\ cli'.command = "rollback"
      /\ RecordedSuccess(migrations, cli'.name)
      /\ RollbackFileExists(cli'.name))
       => /\ executed' = Append(executed, cli'.name \o "_rollback")
          /\ ~RecordedSuccess(migrations', cli'.name)]_vars

\* C26: a run of migrate executes the pending migrations only, in the order
\* of their file names; a migration recorded as success is not executed
\* again; every successful migration has exactly one success record; a
\* second run with no new file changes nothing.
C26_MigrateRunsPendingOnce ==
  /\ [][(cli'.n # cli.n /\ cli'.command = "migrate")
          => /\ \E k \in 0..Len(Pending_(migrations)) :
                  Added(executed', Len(executed))
                    = SubSeq(Pending_(migrations), 1, k)
             /\ Pending_(migrations) = <<>>
                  => migrations' = migrations /\ executed' = executed]_vars
  /\ [](\A f \in Directory :
          Cardinality(SuccessRows(migrations, f.name)) <= 1)

----------------------------------------------------------------------------
(* Properties of the join_live_session handler                             *)

\* the user is the manager or the sales representative of the session
IsParticipant(row, user) ==
  user.id \in {ManagerId(row), SalesRepresentativeId(row)}

\* the sessions the data of the socket's last join_live_session names
NamedSessions(s) ==
  {i \in DOMAIN liveSessions :
     liveSessions[i].session_token = sockets[s].data.sessionToken}

====
